---- MODULE Spec2Model ----
(***************************************************************************)
(* Corotational SPH elasticity (Becker et al. 2009) of salva, 2D build     *)
(* (feature "dim2"), instantiated with the spiky kernel for both the       *)
(* density and the gradient role.                                          *)
(*                                                                         *)
(* Real numbers are exact extended rationals <<n, d>> (d >= 0, lowest      *)
(* terms): <<1,0>> is +inf, <<-1,0>> is -inf, <<0,0>> is NaN, so that a    *)
(* division by zero behaves as the IEEE division of the code does.         *)
(* Rounding is not modelled.  Indices are 1-based.                         *)
(***************************************************************************)
EXTENDS Integers, Sequences, FiniteSets, TLC

\* ------------------------------------------------------------------------
\* Real arithmetic (crate::math::Real)
\* ------------------------------------------------------------------------

Abs(x) == IF x < 0 THEN -x ELSE x

Sgn(x) == IF x < 0 THEN -1 ELSE IF x > 0 THEN 1 ELSE 0

RECURSIVE GCD(_, _)
GCD(a, b) == IF b = 0 THEN a ELSE GCD(b, a % b)

Norm(n, d) ==
    IF d = 0 THEN <<Sgn(n), 0>>
    ELSE LET s == IF d < 0 THEN -1 ELSE 1
             g == GCD(Abs(n), Abs(d))
         IN  <<(s * n) \div g, (s * d) \div g>>

R(n) == <<n, 1>>

Zero == <<0, 1>>

One == <<1, 1>>

NaN == <<0, 0>>

IsFinite(a) == a[2] # 0

RNeg(a) == <<-a[1], a[2]>>

RAdd(a, b) ==
    IF a[2] = 0 /\ b[2] = 0 THEN (IF a = b THEN a ELSE NaN)
    ELSE IF a = Zero THEN b
    ELSE IF b = Zero THEN a
    ELSE LET g == GCD(a[2], b[2])
         IN  Norm(a[1] * (b[2] \div g) + b[1] * (a[2] \div g), (a[2] \div g) * b[2])

RSub(a, b) == RAdd(a, RNeg(b))

RMul(a, b) ==
    IF a[2] = 0 \/ b[2] = 0 THEN Norm(a[1] * b[1], 0)
    ELSE IF a[1] = 0 \/ b[1] = 0 THEN Zero
    ELSE IF a = One THEN b
    ELSE IF b = One THEN a
    ELSE LET g1 == GCD(Abs(a[1]), b[2])
             g2 == GCD(Abs(b[1]), a[2])
         IN  <<(a[1] \div g1) * (b[1] \div g2), (a[2] \div g2) * (b[2] \div g1)>>

RInv(a) == Norm(a[2], a[1])

RDiv(a, b) == RMul(a, RInv(b))

RLeq(a, b) == a # NaN /\ b # NaN /\ a[1] * b[2] <= b[1] * a[2]

RGeq(a, b) == RLeq(b, a)

RECURSIVE RPowi(_, _)
RPowi(a, k) == IF k = 0 THEN One ELSE RMul(a, RPowi(a, k - 1))

ISqrt(k) == CHOOSE r \in 0..k : r * r = k

\* Exact on the squares of rationals, which is all the model feeds it.
RSqrt(a) == <<ISqrt(a[1]), ISqrt(a[2])>>

\* ------------------------------------------------------------------------
\* Vector<Real>, Matrix<Real>, RotationMatrix<Real> (2D)
\* ------------------------------------------------------------------------

V(x, y) == <<R(x), R(y)>>

VZero == <<Zero, Zero>>

VAdd(u, v) == <<RAdd(u[1], v[1]), RAdd(u[2], v[2])>>

VSub(u, v) == <<RSub(u[1], v[1]), RSub(u[2], v[2])>>

VScale(u, s) == <<RMul(u[1], s), RMul(u[2], s)>>

VNeg(u) == <<RNeg(u[1]), RNeg(u[2])>>

VDot(u, v) == RAdd(RMul(u[1], v[1]), RMul(u[2], v[2]))

\* Vector2::perp: the 2D cross product.
VPerp(u, v) == RSub(RMul(u[1], v[2]), RMul(u[2], v[1]))

VNorm(u) == RSqrt(VDot(u, u))

MZero == <<VZero, VZero>>

MIdentity == <<<<One, Zero>>, <<Zero, One>>>>

MAdd(a, b) == <<VAdd(a[1], b[1]), VAdd(a[2], b[2])>>

MTranspose(a) == <<<<a[1][1], a[2][1]>>, <<a[1][2], a[2][2]>>>>

MCol(a, k) == <<a[1][k], a[2][k]>>

MMulVec(a, v) == <<VDot(a[1], v), VDot(a[2], v)>>

MMul(a, b) ==
    <<<<VDot(a[1], MCol(b, 1)), VDot(a[1], MCol(b, 2))>>,
      <<VDot(a[2], MCol(b, 1)), VDot(a[2], MCol(b, 2))>>>>

\* u * v.transpose()
Outer(u, v) ==
    <<<<RMul(u[1], v[1]), RMul(u[1], v[2])>>,
      <<RMul(u[2], v[1]), RMul(u[2], v[2])>>>>

\* ------------------------------------------------------------------------
\* SpikyKernel (src/kernel/spiky_kernel.rs), dim2
\* ------------------------------------------------------------------------

\* N::pi(): the floating-point constant, a rational; the model takes 16/5,
\* which keeps the kernel values small. No property below rests on its value.
Pi == <<16, 5>>

\* na::convert(10.0) / (N::pi() * h.powi(5))
normalizer(h) == RDiv(R(10), RMul(Pi, RPowi(h, 5)))

\* A call either panics in its assert! (abort, no value) or returns val.
Panic == [abort |-> TRUE, val |-> NaN]

Return(v) == [abort |-> FALSE, val |-> v]

scalar_apply(r, h) ==
    IF ~RGeq(r, Zero) THEN Panic
    ELSE IF RLeq(r, h) THEN Return(RMul(normalizer(h), RPowi(RSub(h, r), 3)))
    ELSE Return(Zero)

scalar_apply_diff(r, h) ==
    IF ~RGeq(r, Zero) THEN Panic
    ELSE IF RLeq(r, h)
         THEN Return(RMul(RMul(RNeg(normalizer(h)), RPowi(RSub(h, r), 2)), R(3)))
    ELSE Return(Zero)

\* Kernel::points_apply: the weight at the distance of two points.
points_apply(p1, p2, h) == scalar_apply(VNorm(VSub(p1, p2)), h).val

\* Kernel::points_apply_diff1: the gradient vector, along p1 - p2.
points_apply_diff1(p1, p2, h) ==
    LET dpt == VSub(p1, p2)
        norm == VNorm(dpt)
    IN  IF norm = Zero THEN VZero
        ELSE VScale(VScale(dpt, RInv(norm)), scalar_apply_diff(norm, h).val)

\* ------------------------------------------------------------------------
\* RotationMatrix::from_matrix_eps (nalgebra), as called by compute_rotations
\* ------------------------------------------------------------------------

Rot0 == MIdentity

Rot90 == <<<<Zero, R(-1)>>, <<One, Zero>>>>

Rot180 == <<<<R(-1), Zero>>, <<Zero, R(-1)>>>>

Rot270 == <<<<Zero, One>>, <<R(-1), Zero>>>>

QuarterTurns == <<Rot0, Rot90, Rot180, Rot270>>

\* The rotation increment of one iteration is axis / (|denom| + eps).
RotAxis(rot, m) ==
    RAdd(VPerp(MCol(rot, 1), MCol(m, 1)), VPerp(MCol(rot, 2), MCol(m, 2)))

RotDenom(rot, m) ==
    RAdd(VDot(MCol(rot, 1), MCol(m, 1)), VDot(MCol(rot, 2), MCol(m, 2)))

\* The iteration stops at once, returning the guess, when the increment is
\* zero; otherwise it climbs to the rotation that maximises trace(R^T m),
\* which the model takes among the quarter turns (the first of the best).
from_matrix_eps(m, guess) ==
    IF RotAxis(guess, m) = Zero THEN guess
    ELSE LET best(k) == \A l \in 1..4 :
                 /\ RLeq(RotDenom(QuarterTurns[l], m), RotDenom(QuarterTurns[k], m))
                 /\ (l < k => RotDenom(QuarterTurns[l], m) # RotDenom(QuarterTurns[k], m))
         IN  QuarterTurns[CHOOSE k \in 1..4 : best(k)]

\* ------------------------------------------------------------------------
\* Fluid (the particle container) and ParticlesContacts
\* ------------------------------------------------------------------------

\* Fluid::particle_mass
particle_mass(fluid, i) == fluid.mass[i]

\* The sequence <<Op(1), ..., Op(n)>>, built element by element.
RECURSIVE SeqOf(_, _)
SeqOf(Op(_), n) == IF n = 0 THEN <<>> ELSE Append(SeqOf(Op, n - 1), Op(n))

\* Vec::resize: truncates, or pads with fill; the entries kept are untouched.
Resize(seq, n, fill) ==
    SeqOf(LAMBDA k : IF k <= Len(seq) THEN seq[k] ELSE fill, n)

RECURSIVE Flatten(_)
Flatten(seqs) == IF seqs = <<>> THEN <<>> ELSE Head(seqs) \o Flatten(Tail(seqs))

\* The particles j # i within distance h of i, ascending, from j on.
RECURSIVE NeighboursFrom(_, _, _, _)
NeighboursFrom(positions, h, i, j) ==
    IF j > Len(positions) THEN <<>>
    ELSE LET d == VSub(positions[i], positions[j])
             rest == NeighboursFrom(positions, h, i, j + 1)
         IN  IF j # i /\ RLeq(VDot(d, d), RMul(h, h))
             THEN <<[i |-> i, j |-> j, weight |-> Zero, gradient |-> VZero]>> \o rest
             ELSE rest

\* geometry::compute_self_contacts: the graph is rebuilt from the positions.
compute_self_contacts(h, fluid) ==
    SeqOf(LAMBDA i : NeighboursFrom(fluid.positions, h, i, 1), Len(fluid.positions))

\* ------------------------------------------------------------------------
\* Becker2009Elasticity (src/solver/elasticity/becker2009_elasticity.rs)
\* ------------------------------------------------------------------------

elasticity_coefficients(young_modulus, poisson_ratio) ==
    LET den == RMul(RAdd(One, poisson_ratio), RSub(One, RMul(R(2), poisson_ratio)))
    IN  [d0 |-> RDiv(RMul(young_modulus, RSub(One, poisson_ratio)), den),
         d1 |-> RDiv(RMul(young_modulus, poisson_ratio), den),
         d2 |-> RDiv(RMul(young_modulus, RSub(One, RMul(R(2), poisson_ratio))),
                     RMul(R(2), den))]

\* mat is the packed symmetric tensor <<xx, yy, xy>>.
sym_mat_mul_vec(mat, v) ==
    <<RAdd(RMul(mat[1], v[1]), RMul(mat[3], v[2])),
      RAdd(RMul(mat[3], v[1]), RMul(mat[2], v[2]))>>

\* Becker2009Elasticity::new
new(young_modulus, poisson_ratio, nonlinear) ==
    LET d == elasticity_coefficients(young_modulus, poisson_ratio)
    IN  [d0 |-> d.d0, d1 |-> d.d1, d2 |-> d.d2,
         nonlinear_strain |-> nonlinear,
         volumes0 |-> <<>>, positions0 |-> <<>>, contacts0 |-> <<>>,
         rotations |-> <<>>, deformation_gradient_tr |-> <<>>, stress |-> <<>>]

\* Lines 99-102: the kernel values of one contact, at the rest positions.
WithKernel(c, positions0, h) ==
    [c EXCEPT !.weight = points_apply(positions0[c.i], positions0[c.j], h),
              !.gradient = points_apply_diff1(positions0[c.i], positions0[c.j], h)]

\* Lines 104-105, over every contact of every list in turn.
RECURSIVE AccumulateVolumes(_, _, _)
AccumulateVolumes(vol, cs, fluid) ==
    IF cs = <<>> THEN vol
    ELSE LET c == Head(cs)
             v1 == [vol EXCEPT ![c.i] = RAdd(@, RMul(particle_mass(fluid, c.j), c.weight))]
             v2 == [v1 EXCEPT ![c.j] = RAdd(@, RMul(particle_mass(fluid, c.i), c.weight))]
         IN  AccumulateVolumes(v2, Tail(cs), fluid)

\* init with its guard comparing the positions instead of their number: the
\* rest state is taken anew whenever the body has moved.
NeedsInit_Moved(self, fluid) == self.positions0 # fluid.positions

\* Whether init takes its branch.
NeedsInit(self, fluid) == Len(self.positions0) # Len(fluid.positions)

\* init that lets the stress array grow and never shrinks it.
init_StressGrowsOnly(self, h, fluid) ==
    LET nparticles == Len(fluid.positions)
    IN  IF ~NeedsInit(self, fluid) THEN self
        ELSE LET positions0 == fluid.positions
                 resized == Resize(self.volumes0, nparticles, Zero)
                 raw == compute_self_contacts(h, fluid)
                 contacts0 == SeqOf(LAMBDA i :
                                  SeqOf(LAMBDA k : WithKernel(raw[i][k], positions0, h),
                                        Len(raw[i])),
                                  Len(raw))
                 sums == AccumulateVolumes(resized, Flatten(contacts0), fluid)
             IN  [self EXCEPT
                    !.positions0 = positions0,
                    !.volumes0 = SeqOf(LAMBDA i : RDiv(particle_mass(fluid, i), sums[i]),
                                       nparticles),
                    !.rotations = Resize(self.rotations, nparticles, MIdentity),
                    !.deformation_gradient_tr =
                        Resize(self.deformation_gradient_tr, nparticles, MIdentity),
                    !.stress = IF Len(self.stress) < nparticles
                               THEN Resize(self.stress, nparticles, <<Zero, Zero, Zero>>)
                               ELSE self.stress,
                    !.contacts0 = contacts0]

init(self, h, fluid) ==
    LET nparticles == Len(fluid.positions)
    IN  IF ~NeedsInit(self, fluid) THEN self
        ELSE LET positions0 == fluid.positions
                 resized == Resize(self.volumes0, nparticles, Zero)
                 raw == compute_self_contacts(h, fluid)
                 contacts0 == SeqOf(LAMBDA i :
                                  SeqOf(LAMBDA k : WithKernel(raw[i][k], positions0, h),
                                        Len(raw[i])),
                                  Len(raw))
                 sums == AccumulateVolumes(resized, Flatten(contacts0), fluid)
             IN  [self EXCEPT
                    !.positions0 = positions0,
                    !.volumes0 = SeqOf(LAMBDA i : RDiv(particle_mass(fluid, i), sums[i]),
                                       nparticles),
                    !.rotations = Resize(self.rotations, nparticles, MIdentity),
                    !.deformation_gradient_tr =
                        Resize(self.deformation_gradient_tr, nparticles, MIdentity),
                    !.stress = Resize(self.stress, nparticles, <<Zero, Zero, Zero>>),
                    !.contacts0 = contacts0]

\* Lines 124-131: the correlation matrix of particle i.
RECURSIVE SumApq(_, _, _, _)
SumApq(a_pq, cs, self, fluid) ==
    IF cs = <<>> THEN a_pq
    ELSE LET c == Head(cs)
             p_ji == VSub(fluid.positions[c.j], fluid.positions[c.i])
             p0_ji == VSub(self.positions0[c.j], self.positions0[c.i])
             coeff == RMul(c.weight, particle_mass(fluid, c.j))
         IN  SumApq(MAdd(a_pq, Outer(p_ji, VScale(p0_ji, coeff))), Tail(cs), self, fluid)

\* Lines 123-136: the closure of compute_rotations for slot i.
RotationTask(i, self, fluid) ==
    from_matrix_eps(SumApq(MZero, self.contacts0[i], self, fluid), self.rotations[i])

\* The closures run over the slots in index order, from slot i on.
RECURSIVE RotationsFrom(_, _, _)
RotationsFrom(i, self, fluid) ==
    IF i > Len(self.rotations) THEN self
    ELSE RotationsFrom(i + 1,
             [self EXCEPT !.rotations[i] = RotationTask(i, self, fluid)], fluid)

compute_rotations(self, fluid) == RotationsFrom(1, self, fluid)

\* Line 141: the constant compute_stresses binds to the name _0_5.
stress_0_5 == <<141, 250>>

\* Line 280: the constant solve binds to the name _0_5.
solve_0_5 == <<1, 2>>

\* Lines 180-185: the transposed deformation gradient of particle i.
RECURSIVE SumGradTr(_, _, _, _)
SumGradTr(grad_tr, cs, self, fluid) ==
    IF cs = <<>> THEN grad_tr
    ELSE LET c == Head(cs)
             p_ji == VSub(fluid.positions[c.j], fluid.positions[c.i])
             p0_ji == VSub(self.positions0[c.j], self.positions0[c.i])
             u_ji == VSub(MMulVec(MTranspose(self.rotations[c.i]), p_ji), p0_ji)
         IN  SumGradTr(MAdd(grad_tr, Outer(VScale(c.gradient, self.volumes0[c.j]), u_ji)),
                       Tail(cs), self, fluid)

\* Lines 233-260 (dim2): the packed stress <<xx, yy, xy>> of a gradient.
StressOf(grad_tr, self) ==
    IF self.nonlinear_strain
    THEN LET j == MAdd(grad_tr, MIdentity)
             jjt == MMul(j, MTranspose(j))
             e1 == RSub(jjt[1][1], One)
             e2 == RSub(jjt[2][2], One)
         IN  <<RMul(RAdd(RMul(self.d0, e1), RMul(self.d1, e2)), stress_0_5),
               RMul(RAdd(RMul(self.d1, e1), RMul(self.d0, e2)), stress_0_5),
               RMul(RMul(jjt[2][1], stress_0_5), self.d2)>>
    ELSE <<RAdd(RMul(self.d0, grad_tr[1][1]), RMul(self.d1, grad_tr[2][2])),
           RAdd(RMul(self.d1, grad_tr[1][1]), RMul(self.d0, grad_tr[2][2])),
           RMul(RMul(RAdd(grad_tr[2][1], grad_tr[1][2]), stress_0_5), self.d2)>>

\* Lines 177-261: the closure of compute_stresses for slot i.
StressTask(i, self, fluid) ==
    LET grad_tr == SumGradTr(MZero, self.contacts0[i], self, fluid)
    IN  [self EXCEPT !.deformation_gradient_tr[i] = grad_tr,
                     !.stress[i] = StressOf(grad_tr, self)]

Min(a, b) == IF a <= b THEN a ELSE b

RECURSIVE StressesFrom(_, _, _)
StressesFrom(i, self, fluid) ==
    IF i > Min(Len(self.deformation_gradient_tr), Len(self.stress)) THEN self
    ELSE StressesFrom(i + 1, StressTask(i, self, fluid), fluid)

compute_stresses(self, fluid) == StressesFrom(1, self, fluid)

\* The two mirrored terms of the force added where the code subtracts.
ContactForce_SignSlip(c, self) ==
    LET d_ij == VScale(c.gradient, self.volumes0[c.j])
        d_ji == VScale(c.gradient, RNeg(self.volumes0[c.i]))
        sigma_d_ij == sym_mat_mul_vec(self.stress[c.i], d_ij)
        sigma_d_ji == sym_mat_mul_vec(self.stress[c.j], d_ji)
        f_ji == IF self.nonlinear_strain
                THEN VScale(VAdd(sigma_d_ij,
                                 MMulVec(self.deformation_gradient_tr[c.i], sigma_d_ij)),
                            RNeg(self.volumes0[c.i]))
                ELSE VScale(sigma_d_ij, RNeg(self.volumes0[c.i]))
        f_ij == IF self.nonlinear_strain
                THEN VScale(VAdd(sigma_d_ji,
                                 MMulVec(self.deformation_gradient_tr[c.j], sigma_d_ji)),
                            RNeg(self.volumes0[c.j]))
                ELSE VScale(sigma_d_ji, RNeg(self.volumes0[c.j]))
    IN  VAdd(VZero,
             VScale(VAdd(MMulVec(self.rotations[c.j], f_ij),
                         MMulVec(self.rotations[c.i], f_ji)), solve_0_5))

\* Lines 298-310 (nonlinear) and 320-328 (linear): the force of contact c.
ContactForce(c, self) ==
    LET d_ij == VScale(c.gradient, self.volumes0[c.j])
        d_ji == VScale(c.gradient, RNeg(self.volumes0[c.i]))
        sigma_d_ij == sym_mat_mul_vec(self.stress[c.i], d_ij)
        sigma_d_ji == sym_mat_mul_vec(self.stress[c.j], d_ji)
        f_ji == IF self.nonlinear_strain
                THEN VScale(VAdd(sigma_d_ij,
                                 MMulVec(self.deformation_gradient_tr[c.i], sigma_d_ij)),
                            RNeg(self.volumes0[c.i]))
                ELSE VScale(sigma_d_ij, RNeg(self.volumes0[c.i]))
        f_ij == IF self.nonlinear_strain
                THEN VScale(VAdd(sigma_d_ji,
                                 MMulVec(self.deformation_gradient_tr[c.j], sigma_d_ji)),
                            RNeg(self.volumes0[c.j]))
                ELSE VScale(sigma_d_ji, RNeg(self.volumes0[c.j]))
    IN  VAdd(VZero,
             VScale(VSub(MMulVec(self.rotations[c.j], f_ij),
                         MMulVec(self.rotations[c.i], f_ji)), solve_0_5))

\* The accumulator assigned instead of added to.
Accumulate_Assign(acceleration, force, i, fluid) ==
    VScale(force, RInv(RMul(fluid.volumes[i], fluid.density0)))

\* Lines 312 and 330: one contact's force enters the accumulator.
Accumulate(acceleration, force, i, fluid) ==
    VAdd(acceleration, VScale(force, RInv(RMul(fluid.volumes[i], fluid.density0))))

RECURSIVE AddForces(_, _, _, _, _)
AddForces(acceleration, cs, i, self, fluid) ==
    IF cs = <<>> THEN acceleration
    ELSE AddForces(Accumulate(acceleration, ContactForce(Head(cs), self), i, fluid),
                   Tail(cs), i, self, fluid)

\* The closure of slot i also giving each neighbour the reaction, instead
\* of leaving it to the neighbour's own closure.
RECURSIVE ScatterForces(_, _, _, _)
ScatterForces(fluid, cs, i, self) ==
    IF cs = <<>> THEN fluid
    ELSE LET c == Head(cs)
             force == ContactForce(c, self)
             f1 == [fluid EXCEPT !.accelerations[i] = Accumulate(@, force, i, fluid)]
             f2 == [f1 EXCEPT !.accelerations[c.j] =
                                  Accumulate(@, VNeg(force), c.j, fluid)]
         IN  ScatterForces(f2, Tail(cs), i, self)

ForceTask_Scatter(i, self, fluid) == ScatterForces(fluid, self.contacts0[i], i, self)

\* Lines 296-314 and 318-332: the closure of the force pass for slot i.
ForceTask(i, self, fluid) ==
    [fluid EXCEPT !.accelerations[i] = AddForces(@, self.contacts0[i], i, self, fluid)]

RECURSIVE ForcesFrom(_, _, _)
ForcesFrom(i, self, fluid) ==
    IF i > Len(fluid.accelerations) THEN fluid
    ELSE ForcesFrom(i + 1, self, ForceTask(i, self, fluid))

\* NonPressureForce::solve: the solver and the fluid it leaves.
solve(self, h, fluid) ==
    LET s1 == init(self, h, fluid)
        s2 == compute_rotations(s1, fluid)
        s3 == compute_stresses(s2, fluid)
    IN  [self |-> s3, fluid |-> ForcesFrom(1, s3, fluid)]

\* z_order::apply_permutation: the entry of old index i moves to index
\* permutation[i] (the mapping gives the new index of each old index).
z_order_apply_permutation(permutation, data) ==
    SeqOf(LAMBDA k : data[CHOOSE i \in 1..Len(permutation) : permutation[i] = k],
          Len(permutation))

\* ParticlesContacts::apply_permutation: the lists move with their particles
\* and every contact's i and j are mapped through the permutation.
contacts_apply_permutation(permutation, contacts) ==
    z_order_apply_permutation(permutation,
        SeqOf(LAMBDA i :
                  SeqOf(LAMBDA k : [contacts[i][k] EXCEPT !.i = permutation[@],
                                                          !.j = permutation[@]],
                        Len(contacts[i])),
              Len(contacts)))

\* apply_permutation that leaves fresh rotations instead of reordering
\* them, as if the next solve recomputed them from nothing.
apply_permutation_FreshRotations(self, permutation) ==
    [self EXCEPT
        !.volumes0 = z_order_apply_permutation(permutation, self.volumes0),
        !.positions0 = z_order_apply_permutation(permutation, self.positions0),
        !.rotations = SeqOf(LAMBDA k : MIdentity, Len(self.rotations)),
        !.contacts0 = contacts_apply_permutation(permutation, self.contacts0)]

\* NonPressureForce::apply_permutation
apply_permutation(self, permutation) ==
    [self EXCEPT
        !.volumes0 = z_order_apply_permutation(permutation, self.volumes0),
        !.positions0 = z_order_apply_permutation(permutation, self.positions0),
        !.rotations = z_order_apply_permutation(permutation, self.rotations),
        !.contacts0 = contacts_apply_permutation(permutation, self.contacts0)]

\* ------------------------------------------------------------------------
\* Bounds and inputs
\* ------------------------------------------------------------------------

\* The largest particle count a fluid is given.
MaxParticles == 3

\* The number of solve calls of a run.
MaxSolves == 4

\* The number of apply_permutation calls between two solves.
MaxPerms == 2

\* The number of solve calls of a run that also permutes.
MaxPermSolves == 2

\* The number of solve calls of a run whose loops are interleaved.
MaxParSolves == 2

\* The distances and support radii the kernel is called with.
KernelInputs ==
    {R(-2), R(-1), <<-1, 2>>, Zero, <<1, 4>>, <<1, 2>>, <<3, 4>>, One, <<3, 2>>, R(2), R(3)}

\* The support radius passed to solve.
KernelRadii == {<<5, 16>>}

\* The distance of two neighbours of the rest layout: three quarters of the
\* support radius, so that two particles within the support radius are at
\* distance exactly 0 or Spacing, and the diagonal of the grid is outside.
Spacing == <<15, 64>>

P(x, y) == VScale(V(x, y), Spacing)

\* The rest layout: a star around particle 1.
Layout == <<P(0, 0), P(1, 0), P(0, 1), P(-1, 0), P(0, -1), P(1, 1)>>

Shapes == {"rest", "turn", "half", "stretch"}

\* Where the host has moved particle k of an n-particle body: nowhere; a
\* quarter turn of the body; a half turn of the body; or the last particle
\* pulled out of reach, to twice its distance. Two particles within the
\* support radius are at distance Spacing, and the correlation matrix of any
\* two of these shapes is a quarter turn times a symmetric matrix.
Place(shape, n, k) ==
    LET p == Layout[k]
    IN  CASE shape = "rest" -> p
          [] shape = "turn" -> <<RNeg(p[2]), p[1]>>
          [] shape = "half" -> VNeg(p)
          [] shape = "stretch" -> IF k = n THEN VScale(p, R(2)) ELSE p

\* The fluid the host passes to solve: other force contributors have already
\* written accelerations (none of them zero) into the accumulator.
MkFluid(n, shape) ==
    [positions |-> SeqOf(LAMBDA k : Place(shape, n, k), n),
     mass |-> SeqOf(LAMBDA k : One, n),
     volumes |-> SeqOf(LAMBDA k : R(2 - (k % 2)), n),
     density0 |-> R(2),
     accelerations |-> SeqOf(LAMBDA k : V(k, -1), n)]

Fluids ==
    {MkFluid(n, shape) : n \in 0..MaxParticles, shape \in Shapes}

\* <<Young's modulus, Poisson's ratio>>, the ratio inside (-1, 1/2). The
\* moduli are multiples of 250/141, which keeps their products with the
\* constant of compute_stresses short.
Materials == {<<<<625, 141>>, <<1, 4>>>>, <<<<500, 141>>, Zero>>}

Perms(n) ==
    {p \in [1..n -> 1..n] : \A a, b \in 1..n : a # b => p[a] # p[b]}

Inverse(p) == [k \in 1..Len(p) |-> CHOOSE i \in 1..Len(p) : p[i] = k]

\* ------------------------------------------------------------------------
\* State
\* ------------------------------------------------------------------------

VARIABLES
    self,       \* the Becker2009Elasticity object
    fluid,      \* the Fluid of the latest solve, as the solve has left it so far
    pre,        \* the solver, the fluid and the radius the latest solve received
    initRan,    \* whether the latest solve took the branch of init
    lastOp,     \* "new", "solve" or "permute": the latest call
    nsolves,    \* the number of solve calls so far
    permTrail,  \* the permutations applied since the latest solve
    snap,       \* the solver as the latest solve left it
    pc,         \* the phase of a solve in flight, "idle" between calls
    done,       \* the slots whose closure of the current phase has run
    k_r,        \* the distance of a kernel call
    k_h,        \* the support radius of a kernel call
    k_out       \* the kernel operation called and its outcome

vars == <<self, fluid, pre, initRan, lastOp, nsolves, permTrail, snap, pc, done,
          k_r, k_h, k_out>>

kernelVars == <<k_r, k_h, k_out>>

solverVars == <<self, fluid, pre, initRan, lastOp, nsolves, permTrail, snap, pc, done>>

NoFluid == MkFluid(0, "rest")

NoCall == [op |-> "none", out |-> Return(Zero)]

\* The state after Becker2009Elasticity::new, for the given materials.
InitSolver(materials) ==
    /\ \E m \in materials, nonlinear \in BOOLEAN : self = new(m[1], m[2], nonlinear)
    /\ fluid = NoFluid
    /\ pre = [self |-> self, fluid |-> NoFluid, h |-> Zero]
    /\ initRan = FALSE
    /\ lastOp = "new"
    /\ nsolves = 0
    /\ permTrail = <<>>
    /\ snap = self
    /\ pc = "idle"
    /\ done = {}

NoKernelCall == k_r = Zero /\ k_h = Zero /\ k_out = NoCall

\* ------------------------------------------------------------------------
\* Spec: a run of solve calls, each one atomic
\* ------------------------------------------------------------------------

Init == InitSolver(Materials) /\ NoKernelCall

\* One call of NonPressureForce::solve, on a fluid the host passes in.
SolveCall(fluids) ==
    /\ pc = "idle"
    /\ \E f \in fluids, h \in KernelRadii :
          LET res == solve(self, h, f)
          IN  /\ self' = res.self
              /\ fluid' = res.fluid
              /\ pre' = [self |-> self, fluid |-> f, h |-> h]
              /\ initRan' = NeedsInit(self, f)
              /\ snap' = res.self
    /\ lastOp' = "solve"
    /\ nsolves' = nsolves + 1
    /\ permTrail' = <<>>
    /\ UNCHANGED <<pc, done, kernelVars>>

Solve == nsolves < MaxSolves /\ SolveCall(Fluids)

Next == Solve

Spec == Init /\ [][Next]_vars

\* ------------------------------------------------------------------------
\* SpecPerm: solve calls and apply_permutation calls
\* ------------------------------------------------------------------------

SolveThenPermute == nsolves < MaxPermSolves /\ SolveCall(Fluids)

\* One call of NonPressureForce::apply_permutation, with a bijection of the
\* indices of the particles of the latest solve.
ApplyPermutation ==
    /\ pc = "idle"
    /\ Len(permTrail) < MaxPerms
    /\ \E permutation \in Perms(Len(fluid.positions)) :
          /\ self' = apply_permutation(self, permutation)
          /\ permTrail' = Append(permTrail, permutation)
    /\ lastOp' = "permute"
    /\ UNCHANGED <<fluid, pre, initRan, nsolves, snap, pc, done, kernelVars>>

NextPerm == SolveThenPermute \/ ApplyPermutation

SpecPerm == Init /\ [][NextPerm]_vars

\* ------------------------------------------------------------------------
\* SpecPar: the closures of the three parallel loops of solve, one slot at a
\* time in any order; a loop ends (the join of par_iter_mut) when the closure
\* of every slot has run.
\* ------------------------------------------------------------------------

\* The slots the loop of the current phase iterates over.
PhaseSlots ==
    CASE pc = "rotations" -> 1..Len(self.rotations)
      [] pc = "stresses" -> 1..Min(Len(self.deformation_gradient_tr), Len(self.stress))
      [] pc = "forces" -> 1..Len(fluid.accelerations)
      [] OTHER -> {}

\* solve is entered: init runs before the first loop.
BeginSolve ==
    /\ pc = "idle"
    /\ nsolves < MaxParSolves
    /\ \E f \in Fluids, h \in KernelRadii :
          /\ self' = init(self, h, f)
          /\ fluid' = f
          /\ pre' = [self |-> self, fluid |-> f, h |-> h]
          /\ initRan' = NeedsInit(self, f)
    /\ pc' = "rotations"
    /\ done' = {}
    /\ lastOp' = "solve"
    /\ nsolves' = nsolves + 1
    /\ permTrail' = <<>>
    /\ UNCHANGED <<snap, kernelVars>>

RotationStep ==
    /\ pc = "rotations"
    /\ \E i \in PhaseSlots \ done :
          /\ self' = [self EXCEPT !.rotations[i] = RotationTask(i, self, fluid)]
          /\ done' = done \cup {i}
    /\ UNCHANGED <<fluid, pre, initRan, lastOp, nsolves, permTrail, snap, pc, kernelVars>>

StressStep ==
    /\ pc = "stresses"
    /\ \E i \in PhaseSlots \ done :
          /\ self' = StressTask(i, self, fluid)
          /\ done' = done \cup {i}
    /\ UNCHANGED <<fluid, pre, initRan, lastOp, nsolves, permTrail, snap, pc, kernelVars>>

ForceStep ==
    /\ pc = "forces"
    /\ \E i \in PhaseSlots \ done :
          /\ fluid' = ForceTask(i, self, fluid)
          /\ done' = done \cup {i}
    /\ UNCHANGED <<self, pre, initRan, lastOp, nsolves, permTrail, snap, pc, kernelVars>>

\* The loop of the current phase has ended; after the last one solve returns.
Join ==
    /\ pc # "idle"
    /\ done = PhaseSlots
    /\ pc' = CASE pc = "rotations" -> "stresses"
               [] pc = "stresses" -> "forces"
               [] pc = "forces" -> "idle"
    /\ done' = {}
    /\ snap' = IF pc = "forces" THEN self ELSE snap
    /\ UNCHANGED <<self, fluid, pre, initRan, lastOp, nsolves, permTrail, kernelVars>>

NextPar == BeginSolve \/ RotationStep \/ StressStep \/ ForceStep \/ Join

SpecPar == Init /\ [][NextPar]_vars

\* ------------------------------------------------------------------------
\* SpecKernel: calls of the two operations of SpikyKernel
\* ------------------------------------------------------------------------

ScalarApply ==
    /\ \E r \in KernelInputs, h \in KernelInputs :
          /\ k_r' = r
          /\ k_h' = h
          /\ k_out' = [op |-> "scalar_apply", out |-> scalar_apply(r, h)]
    /\ UNCHANGED solverVars

ScalarApplyDiff ==
    /\ \E r \in KernelInputs, h \in KernelInputs :
          /\ k_r' = r
          /\ k_h' = h
          /\ k_out' = [op |-> "scalar_apply_diff", out |-> scalar_apply_diff(r, h)]
    /\ UNCHANGED solverVars

NextKernel == ScalarApply \/ ScalarApplyDiff

SpecKernel == Init /\ [][NextKernel]_vars

\* ------------------------------------------------------------------------
\* Properties
\* ------------------------------------------------------------------------

Slots == 1..Len(fluid.positions)

AfterSolve == lastOp = "solve" /\ pc = "idle"

\* C1: after every init that solve performs, a re-initialisation after a
\* change of the particle count included, volumes0[i] is the mass of i over
\* the sum the loop of init accumulates from the contacts of the newly built
\* graph alone, with nothing left in it from an earlier initialisation.
C1_RestVolumeFromNewGraph ==
    (AfterSolve /\ initRan) =>
        LET sums == AccumulateVolumes(SeqOf(LAMBDA i : Zero, Len(self.volumes0)),
                                      Flatten(self.contacts0), pre.fluid)
        IN  \A i \in 1..Len(self.volumes0) :
                self.volumes0[i] = RDiv(particle_mass(pre.fluid, i), sums[i])

\* The contact graph init builds from a fluid: pairs, weights and gradients.
GraphOf(f, h) ==
    LET raw == compute_self_contacts(h, f)
    IN  SeqOf(LAMBDA i : SeqOf(LAMBDA k : WithKernel(raw[i][k], f.positions, h),
                               Len(raw[i])),
              Len(raw))

\* C2: init runs in a solve exactly when the particle count of the fluid
\* differs from the length of positions0; then the rest positions and the
\* graph are those of the fluid passed in, and otherwise positions0, volumes0
\* and contacts0 are left as they were before the call.
C2_LazyInit ==
    AfterSolve =>
        LET differ == Len(pre.fluid.positions) # Len(pre.self.positions0)
        IN  /\ initRan <=> differ
            /\ differ => /\ self.positions0 = pre.fluid.positions
                         /\ self.contacts0 = GraphOf(pre.fluid, pre.h)
            /\ ~differ => /\ self.positions0 = pre.self.positions0
                          /\ self.volumes0 = pre.self.volumes0
                          /\ self.contacts0 = pre.self.contacts0

\* A solve that found the counts equal, on a body of several particles that
\* has moved away from its rest positions.
C2_Witness ==
    /\ AfterSolve
    /\ ~initRan
    /\ Len(self.positions0) = MaxParticles
    /\ pre.fluid.positions # self.positions0

\* The sum of the elastic contributions of the contacts of slot i, each one
\* force / (volumes[i] * density0).
RECURSIVE ContributionsOf(_, _)
ContributionsOf(cs, i) ==
    IF cs = <<>> THEN VZero
    ELSE VAdd(VScale(ContactForce(Head(cs), self),
                     RInv(RMul(pre.fluid.volumes[i], pre.fluid.density0))),
              ContributionsOf(Tail(cs), i))

\* C3: after a solve, the acceleration of every particle is its acceleration
\* before the call plus the sum of the elastic contributions of its contacts;
\* a particle without contacts keeps its acceleration.
C3_AccelerationAdded ==
    AfterSolve =>
        \A i \in Slots :
            /\ fluid.accelerations[i] =
                   VAdd(pre.fluid.accelerations[i], ContributionsOf(self.contacts0[i], i))
            /\ self.contacts0[i] = <<>> =>
                   fluid.accelerations[i] = pre.fluid.accelerations[i]

\* A solve that changed the acceleration another contributor had written for
\* one particle and kept that of a particle without contacts.
C3_Witness ==
    /\ AfterSolve
    /\ \E i \in Slots : /\ self.contacts0[i] = <<>>
                        /\ pre.fluid.accelerations[i] # VZero
    /\ \E i \in Slots : /\ fluid.accelerations[i] # pre.fluid.accelerations[i]
                        /\ pre.fluid.accelerations[i] # VZero

\* The contact of j's list that mirrors contact c of i's list.
Mirrors(c2, c) ==
    /\ c2.i = c.j
    /\ c2.j = c.i
    /\ c2.weight = c.weight
    /\ c2.gradient = VNeg(c.gradient)

\* The sum over the slots from i on of volumes * density0 * (acceleration
\* added by the latest solve).
RECURSIVE NetForceFrom(_)
NetForceFrom(i) ==
    IF i > Len(fluid.accelerations) THEN VZero
    ELSE VAdd(VScale(VSub(fluid.accelerations[i], pre.fluid.accelerations[i]),
                     RMul(fluid.volumes[i], fluid.density0)),
              NetForceFrom(i + 1))

\* C6: after a solve, in either strain mode, the force of every contact is
\* the exact negative of the force of the mirrored contact in the list of the
\* other particle, and the sum over all particles of volumes[i] * density0 *
\* (acceleration added to i) is zero.
C6_NewtonThirdLaw ==
    AfterSolve =>
        /\ \A i \in Slots : \A k \in 1..Len(self.contacts0[i]) :
              LET c == self.contacts0[i][k]
              IN  \E l \in 1..Len(self.contacts0[c.j]) :
                      /\ Mirrors(self.contacts0[c.j][l], c)
                      /\ ContactForce(self.contacts0[c.j][l], self)
                             = VNeg(ContactForce(c, self))
        /\ NetForceFrom(1) = VZero

\* A solve in nonlinear mode that changed the acceleration of a particle
\* with two neighbours.
C6_Witness ==
    /\ AfterSolve
    /\ self.nonlinear_strain
    /\ \E i \in Slots : /\ Len(self.contacts0[i]) > 1
                        /\ fluid.accelerations[i] # pre.fluid.accelerations[i]

AllIdentity(rotations) == \A k \in 1..Len(rotations) : rotations[k] = MIdentity

\* The latest solve was called on a body at its rest positions.
AtRest == AfterSolve /\ pre.fluid.positions = self.positions0

\* Rotations the identity, gradients and stresses zero, no acceleration
\* changed.
NothingHappened ==
    /\ AllIdentity(self.rotations)
    /\ \A i \in Slots : /\ self.deformation_gradient_tr[i] = MZero
                        /\ self.stress[i] = <<Zero, Zero, Zero>>
    /\ fluid.accelerations = pre.fluid.accelerations

\* C7: whenever solve is called on a body whose positions are its rest
\* positions, the rotations are the identity, every deformation gradient and
\* stress is zero and no acceleration is changed, for both materials and both
\* strain modes.
C7_NothingHappensAtRest == AtRest => NothingHappened

\* The stress of a gradient with the scaling constant one half.
StressWithHalf(grad_tr) ==
    IF self.nonlinear_strain
    THEN LET j == MAdd(grad_tr, MIdentity)
             jjt == MMul(j, MTranspose(j))
             e1 == RMul(RSub(jjt[1][1], One), solve_0_5)
             e2 == RMul(RSub(jjt[2][2], One), solve_0_5)
         IN  <<RAdd(RMul(self.d0, e1), RMul(self.d1, e2)),
               RAdd(RMul(self.d1, e1), RMul(self.d0, e2)),
               RMul(RMul(jjt[2][1], solve_0_5), self.d2)>>
    ELSE <<RAdd(RMul(self.d0, grad_tr[1][1]), RMul(self.d1, grad_tr[2][2])),
           RAdd(RMul(self.d1, grad_tr[1][1]), RMul(self.d0, grad_tr[2][2])),
           RMul(RMul(RAdd(grad_tr[2][1], grad_tr[1][2]), solve_0_5), self.d2)>>

\* C8: the constant the stress computation applies is one half: the stress
\* a solve leaves for every particle is the one computed with 1/2 from the
\* deformation gradient it leaves, in linear and in nonlinear mode.
C8_StressScaledByHalf ==
    AfterSolve =>
        \A i \in Slots : self.stress[i] = StressWithHalf(self.deformation_gradient_tr[i])

\* The part of the solver apply_permutation reorders.
RestOf(s) ==
    [volumes0 |-> s.volumes0, positions0 |-> s.positions0,
     rotations |-> s.rotations, contacts0 |-> s.contacts0]

IsIdentity(p) == \A k \in 1..Len(p) : p[k] = k

\* C4: on an initialised solver, apply_permutation with a bijection and then
\* with its inverse restores volumes0, positions0, rotations and the contact
\* graph, the i and j of every contact included, to what they were before the
\* two calls.
C4_PermutationRoundTrip ==
    (/\ Len(permTrail) = 2
     /\ permTrail[2] = Inverse(permTrail[1])) => RestOf(self) = RestOf(snap)

\* A round trip through a permutation that moves every particle of a body
\* with contacts and with rotations that are not the identity.
C4_Witness ==
    /\ Len(permTrail) = 2
    /\ permTrail[2] = Inverse(permTrail[1])
    /\ Len(self.positions0) = MaxParticles
    /\ \A k \in 1..Len(permTrail[1]) : permTrail[1][k] # k
    /\ permTrail[2] # permTrail[1]
    /\ ~AllIdentity(self.rotations)
    /\ RestOf(apply_permutation(snap, permTrail[1])) # RestOf(snap)

\* C5: scalar_apply and scalar_apply_diff abort, returning no value, when
\* called with a distance r < 0 or with a support radius h <= 0.
C5_KernelAbortsOnBadInput ==
    (/\ k_out.op # "none"
     /\ \/ (RLeq(k_r, Zero) /\ k_r # Zero)
        \/ RLeq(k_h, Zero)) => k_out.out.abort

\* C10: in every state between calls, the six per-particle arrays of the
\* solver have the length of the particle count of the latest solve, so
\* that apply_permutation changes none of them and a solve of a fluid of
\* that count does not take the branch of init.
C10_ArrayLengths ==
    pc = "idle" =>
        /\ \A len \in {Len(self.volumes0), Len(self.positions0), Len(self.rotations),
                       Len(self.deformation_gradient_tr), Len(self.stress),
                       Len(self.contacts0)} : len = Len(fluid.positions)
        /\ ~NeedsInit(self, fluid)

\* After a solve of a fluid with fewer particles than the one before and two
\* permutations, the second of them not the identity.
C10_Witness ==
    /\ lastOp = "permute"
    /\ Len(permTrail) = 2
    /\ ~IsIdentity(permTrail[2])
    /\ Len(fluid.positions) > 1
    /\ Len(pre.self.positions0) > Len(fluid.positions)

\* One step of a loop changes the output of one slot that had not run.
OwnSlotOnly ==
    \E i \in PhaseSlots \ done :
        /\ done' = done \cup {i}
        /\ CASE pc = "rotations" ->
                  /\ self' = [self EXCEPT !.rotations[i] = self'.rotations[i]]
                  /\ fluid' = fluid
             [] pc = "stresses" ->
                  /\ self' = [self EXCEPT
                                !.deformation_gradient_tr[i] = self'.deformation_gradient_tr[i],
                                !.stress[i] = self'.stress[i]]
                  /\ fluid' = fluid
             [] pc = "forces" ->
                  /\ fluid' = [fluid EXCEPT !.accelerations[i] = fluid'.accelerations[i]]
                  /\ self' = self

\* C9: in each of the three loops the closure of slot i writes slot i of the
\* outputs of its loop only, and whatever the order in which the closures of
\* a loop run, the solver and the accelerations a solve ends with are those
\* of running the closures in index order.
C9_TasksIndependent ==
    [][/\ (pc # "idle" /\ pc' = pc) => OwnSlotOnly
       /\ (pc = "forces" /\ pc' = "idle") =>
              [self |-> self', fluid |-> fluid'] = solve(pre.self, pre.h, pre.fluid)]_vars

\* The force loop with the closure of the last slot run before that of the
\* first, having changed the acceleration of its particle.
C9_Witness ==
    /\ pc = "forces"
    /\ Len(fluid.accelerations) = MaxParticles
    /\ MaxParticles \in done
    /\ 1 \notin done
    /\ fluid.accelerations[MaxParticles] # pre.fluid.accelerations[MaxParticles]

====
